---- MODULE Spec2Model ----
(***************************************************************************)
(* Model of src/f1_utils.py: the three comparison functions                *)
(* compare_race_laps, old_compare_fastest_laps and compare_fastest_q_lap.  *)
(*                                                                         *)
(* Distances are integers (metres).  The common distance grid of           *)
(* np.linspace(start, end, 1000) is kept exactly, as integers in units of  *)
(* 1/(NumPoints-1) metre: point i (1-based) is                             *)
(*     start*(NumPoints-1) + (i-1)*(end-start).                            *)
(* Lap times are integers in ticks of 100 microseconds.                    *)
(* The per-channel telemetry line plots and the sector markers take no     *)
(* decision and are not modelled.                                          *)
(***************************************************************************)
EXTENDS Integers, Sequences, FiniteSets, TLC

VARIABLES
    fn,                        \* the function that was called
    lap_num,                   \* its lap_num argument (compare_race_laps only)
    session,                   \* what the data provider holds: laps, corners
    pc,                        \* position in the call chain
    fastest_lap_driver_1, fastest_lap_driver_2,
    telemetry_driver_1, telemetry_driver_2,
    telemetry_driver_1_clean, telemetry_driver_2_clean,
    common_distance,
    interp_driver_1, interp_driver_2,
    colors,
    lc,                        \* the LineCollection: segments and colours
    lap_str,                   \* <<d1_fastest_lap_str, d2_fastest_lap_str>>
    title_lap,                 \* the lap named in the track-dominance title
    corner_pos,
    corner_lookup_on,          \* <<the trace the corner lookup was made on>>
    fastest_lap_diff,
    drawn,                     \* the colour each segment of lc is painted in
    error,                     \* the exception that ended the call, if any
    nn_trace, nn_target, nn_corner, nn_grid   \* resampler on its own

vars == <<fn, lap_num, session, pc, fastest_lap_driver_1, fastest_lap_driver_2,
          telemetry_driver_1, telemetry_driver_2,
          telemetry_driver_1_clean, telemetry_driver_2_clean,
          common_distance, interp_driver_1, interp_driver_2, colors, lc,
          lap_str, title_lap, corner_pos, corner_lookup_on, fastest_lap_diff,
          drawn, error, nn_trace, nn_target, nn_corner, nn_grid>>

pipeVars == <<fn, lap_num, session, pc, fastest_lap_driver_1, fastest_lap_driver_2,
          telemetry_driver_1, telemetry_driver_2,
          telemetry_driver_1_clean, telemetry_driver_2_clean,
          common_distance, interp_driver_1, interp_driver_2, colors, lc,
          lap_str, title_lap, corner_pos, corner_lookup_on, fastest_lap_diff,
          drawn, error>>

nnVars == <<nn_trace, nn_target, nn_corner, nn_grid>>

----------------------------------------------------------------------------
(* Bounds of the model *)

MaxLen == 2        \* samples in a telemetry trace
MaxDist == 2       \* largest distance of a sample
MaxSpeed == 2      \* speeds are 1..MaxSpeed
TotalLaps == 2     \* session.total_laps of the sessions with several laps
NNMaxLen == 3      \* samples of a trace handed to the resampler on its own
NNMaxDist == 4     \* largest distance there

(* Program constants *)

NumPoints == 1000
GridScale == NumPoints - 1

----------------------------------------------------------------------------
(* Helpers *)

Abs(x) == IF x < 0 THEN -x ELSE x

Min2(a, b) == IF b < a THEN b ELSE a

Max2(a, b) == IF b > a THEN b ELSE a

SeqMin(s) == CHOOSE m \in {s[k] : k \in 1..Len(s)} : \A k \in 1..Len(s) : m <= s[k]

SeqMax(s) == CHOOSE m \in {s[k] : k \in 1..Len(s)} : \A k \in 1..Len(s) : m >= s[k]

Distance(trace) == [k \in 1..Len(trace) |-> trace[k].Distance]

NonDecreasing(n, top) ==
    {ds \in [1..n -> 0..top] : \A k \in 1..(n-1) : ds[k] <= ds[k+1]}

\* A telemetry trace as get_telemetry().add_distance() returns it: rows in
\* recording order, Distance non-decreasing, every row with its own (X, Y).
MkTrace(ds, ss) ==
    [k \in 1..Len(ds) |-> [Distance |-> ds[k], Speed |-> ss[k], X |-> k, Y |-> k * k]]

TracesOfLen(n, top, sp) ==
    {MkTrace(ds, ss) : ds \in NonDecreasing(n, top), ss \in [1..n -> 1..sp]}

\* driver 1's traces: every speed in 1..MaxSpeed at every sample
Traces == UNION {TracesOfLen(n, MaxDist, MaxSpeed) : n \in 1..MaxLen}

\* driver 2's traces: the same distances, at the lowest speed throughout
SteadyTraces == UNION {TracesOfLen(n, MaxDist, 1) : n \in 1..MaxLen}

\* traces handed to the resampler on its own, the empty trace included
NNTraces == UNION {TracesOfLen(n, NNMaxDist, 1) : n \in 0..NNMaxLen}

----------------------------------------------------------------------------
(* DataFrame.drop_duplicates(subset='Distance'): rows are visited in order *)
(* and a row is kept unless an earlier row has the same Distance.          *)

RECURSIVE DropDuplicatesUpTo(_, _)
DropDuplicatesUpTo(trace, n) ==
    IF n = 0 THEN <<>>
    ELSE LET kept == DropDuplicatesUpTo(trace, n - 1)
         IN  IF \E j \in 1..(n-1) : trace[j].Distance = trace[n].Distance
             THEN kept
             ELSE Append(kept, trace[n])

drop_duplicates(trace) == DropDuplicatesUpTo(trace, Len(trace))

----------------------------------------------------------------------------
(* (trace['Distance'] - target).abs().idxmin(): the row of the smallest    *)
(* absolute difference, the first such row when several are equal.  An     *)
(* empty column makes idxmin raise ValueError: the result is 0 then.       *)
(* dists are in metres; target is in units of 1/scale metre.               *)

AbsDiff(dists, scale, target) ==
    [k \in 1..Len(dists) |-> Abs(dists[k] * scale - target)]

idxmin(s) ==
    IF Len(s) = 0 THEN 0
    ELSE CHOOSE k \in 1..Len(s) :
            /\ \A j \in 1..Len(s) : s[k] <= s[j]
            /\ \A j \in 1..(k-1) : s[j] > s[k]

abs_idxmin(dists, scale, target) == idxmin(AbsDiff(dists, scale, target))

----------------------------------------------------------------------------
(* Index.get_indexer(target, method='nearest') as reindex uses it on an    *)
(* increasing index: the pad and backfill candidates are compared and the  *)
(* pad (left) candidate wins only when it is strictly closer, or when      *)
(* there is no backfill candidate.  0 stands for pandas' -1 (no row).      *)

pad_indexer(dists, scale, target) ==
    LET le == {k \in 1..Len(dists) : dists[k] * scale <= target}
    IN  IF le = {} THEN 0 ELSE CHOOSE k \in le : \A j \in le : j <= k

backfill_indexer(dists, scale, target) ==
    LET ge == {k \in 1..Len(dists) : dists[k] * scale >= target}
    IN  IF ge = {} THEN 0 ELSE CHOOSE k \in ge : \A j \in ge : k <= j

\* values[indexer] with indexer -1 reads the last value
difference_compat(dists, scale, target, indexer) ==
    Abs(dists[IF indexer = 0 THEN Len(dists) ELSE indexer] * scale - target)

nearest_indexer_left(dists, scale, target) ==
    LET left == pad_indexer(dists, scale, target)
        right == backfill_indexer(dists, scale, target)
        left_distance == difference_compat(dists, scale, target, left)
        right_distance == difference_compat(dists, scale, target, right)
    IN  IF (left # 0 /\ left_distance <= right_distance) \/ right = 0 THEN left ELSE right

nearest_indexer(dists, scale, target) ==
    LET left == pad_indexer(dists, scale, target)
        right == backfill_indexer(dists, scale, target)
        left_distance == difference_compat(dists, scale, target, left)
        right_distance == difference_compat(dists, scale, target, right)
    IN  IF left_distance < right_distance \/ right = 0 THEN left ELSE right

\* clean.set_index('Distance').reindex(grid, method='nearest').reset_index():
\* row i carries the grid value as its Distance and the other columns of
\* the nearest row of the trace.
reindex_nearest(clean, grid) ==
    LET dists == Distance(clean)
    IN  [i \in 1..Len(grid) |->
            LET k == nearest_indexer(dists, GridScale, grid[i])
            IN  [Distance |-> grid[i], Speed |-> clean[k].Speed,
                 X |-> clean[k].X, Y |-> clean[k].Y]]

----------------------------------------------------------------------------
linspace_late(start, stop, num) ==
    [i \in 1..num |-> start * (num - 1) + i * (stop - start)]

(* np.linspace(start, stop, num), in units of 1/(num-1) *)
linspace(start, stop, num) ==
    [i \in 1..num |-> start * (num - 1) + (i - 1) * (stop - start)]

driver_1_faster_or_level(interp1, interp2) ==
    [i \in 1..Len(interp1) |-> interp1[i].Speed >= interp2[i].Speed]

(* interp_driver_1['Speed'] > interp_driver_2['Speed'] *)
driver_1_faster(interp1, interp2) ==
    [i \in 1..Len(interp1) |-> interp1[i].Speed > interp2[i].Speed]

np_where_swapped(cond, a, b) == [i \in 1..Len(cond) |-> IF cond[i] THEN b ELSE a]

(* np.where(driver_1_faster, 'red', 'blue') *)
np_where(cond, a, b) == [i \in 1..Len(cond) |-> IF cond[i] THEN a ELSE b]

(* x_vals, y_vals with the first point appended, as (x, y) points *)
closed_points(interp) ==
    LET x_vals == Append([i \in 1..Len(interp) |-> interp[i].X], interp[1].X)
        y_vals == Append([i \in 1..Len(interp) |-> interp[i].Y], interp[1].Y)
    IN  [i \in 1..Len(x_vals) |-> <<x_vals[i], y_vals[i]>>]

(* np.concatenate([points[:-1], points[1:]], axis=1) *)
make_segments(points) ==
    [i \in 1..(Len(points) - 1) |-> <<points[i], points[i + 1]>>]

all_of(s) == s

(* colors[:-1] *)
all_but_last(s) == SubSeq(s, 1, Len(s) - 1)

(* LineCollection(segments, colors=...) as drawn by add_collection: a      *)
(* colour sequence shorter than the segment sequence is cycled.            *)
paint(collection) ==
    [i \in 1..Len(collection.segments) |->
        collection.colors[((i - 1) % Len(collection.colors)) + 1]]

----------------------------------------------------------------------------
(* pd.to_timedelta(t).components and the legend string *)

components(t) ==
    [days |-> t \div 864000000,
     hours |-> (t \div 36000000) % 24,
     minutes |-> (t \div 600000) % 60,
     seconds |-> (t \div 10000) % 60,
     milliseconds |-> (t \div 10) % 1000]

\* format spec :0w of a non-negative integer
RECURSIVE zero_pad(_, _)
zero_pad(n, width) ==
    IF Len(ToString(n)) >= width THEN ToString(n)
    ELSE "0" \o zero_pad(n, width - 1) 

lap_time_str(t) ==
    LET c == components(t)
    IN  zero_pad(c.minutes, 2) \o ":" \o zero_pad(c.seconds, 2) \o "."
            \o zero_pad(c.milliseconds, 3)

----------------------------------------------------------------------------
(* Laps.pick_laps(n), Laps.pick_fastest(): a selection of lap rows *)

pick_laps(laps, n) == SelectSeq(laps, LAMBDA lap : lap.LapNumber = n)

pick_fastest(laps) ==
    IF Len(laps) = 0 THEN <<>>
    ELSE <<laps[idxmin([k \in 1..Len(laps) |-> laps[k].LapTime])]>>


----------------------------------------------------------------------------
(* The sessions the data provider is taken to hold.                        *)
(* A lap row is [LapNumber, LapTime, Telemetry]; a corner is               *)
(* [Number, Distance].  Two families: sessions of one lap per driver with  *)
(* every pair of telemetry traces, and sessions of TotalLaps laps per      *)
(* driver with every assignment of lap times.                              *)
(* get_telemetry() is taken to return at least one sample.                 *)

Fns == {"compare_race_laps", "old_compare_fastest_laps", "compare_fastest_q_lap"}

\* 1:23.4567 and 1:01:23.4567
LapTimes == {834567, 36000000 + 834567}

Corners == <<[Number |-> 1, Distance |-> 1], [Number |-> 2, Distance |-> MaxDist + 1]>>

TelemetrySessions ==
    {[total_laps |-> 1,
      laps |-> << <<[LapNumber |-> 1, LapTime |-> 834567, Telemetry |-> t1]>>,
                  <<[LapNumber |-> 1, LapTime |-> 834567, Telemetry |-> t2]>> >>,
      corners |-> Corners] : t1 \in Traces, t2 \in SteadyTraces}

\* the telemetry of lap n, the same for both drivers
LapTelemetry(n) == MkTrace(<<0, 1, MaxDist>>, <<n, TotalLaps, TotalLaps + 1 - n>>)

LapSessions ==
    {[total_laps |-> TotalLaps,
      laps |-> [d \in 1..2 |-> [n \in 1..TotalLaps |->
                  [LapNumber |-> n, LapTime |-> lt[d][n], Telemetry |-> LapTelemetry(n)]]],
      corners |-> Corners] : lt \in [1..2 -> [1..TotalLaps -> LapTimes]]}

Sessions == TelemetrySessions \cup LapSessions

\* lap_num defaults to -1; the other two functions have no such parameter
LapNums(s, f) ==
    IF f = "compare_race_laps" /\ s \in LapSessions THEN -1..(s.total_laps + 1) ELSE {-1}

NoCall ==
    /\ fn = "none" /\ lap_num = -1 /\ session = <<>> /\ pc = "idle"
    /\ fastest_lap_driver_1 = <<>> /\ fastest_lap_driver_2 = <<>>
    /\ telemetry_driver_1 = <<>> /\ telemetry_driver_2 = <<>>
    /\ telemetry_driver_1_clean = <<>> /\ telemetry_driver_2_clean = <<>>
    /\ common_distance = <<>> /\ interp_driver_1 = <<>> /\ interp_driver_2 = <<>>
    /\ colors = <<>> /\ lc = <<>> /\ lap_str = <<>> /\ title_lap = "none"
    /\ corner_pos = <<>> /\ corner_lookup_on = <<>> /\ fastest_lap_diff = <<>>
    /\ drawn = <<>> /\ error = "none"

\* the result of a lookup: nothing yet, the row found, or the exception
NotLooked == [status |-> "none", row |-> <<>>]

Found(r) == [status |-> "found", row |-> <<r>>]

Raised(e) == [status |-> e, row |-> <<>>]

NoLookup ==
    /\ nn_trace = <<>> /\ nn_target = 0 /\ nn_corner = NotLooked /\ nn_grid = NotLooked

Init ==
    /\ session \in Sessions
    /\ fn \in Fns
    /\ lap_num \in LapNums(session, fn)
    /\ pc = "called"
    /\ fastest_lap_driver_1 = <<>> /\ fastest_lap_driver_2 = <<>>
    /\ telemetry_driver_1 = <<>> /\ telemetry_driver_2 = <<>>
    /\ telemetry_driver_1_clean = <<>> /\ telemetry_driver_2_clean = <<>>
    /\ common_distance = <<>> /\ interp_driver_1 = <<>> /\ interp_driver_2 = <<>>
    /\ colors = <<>> /\ lc = <<>> /\ lap_str = <<>> /\ title_lap = "none"
    /\ corner_pos = <<>> /\ corner_lookup_on = <<>> /\ fastest_lap_diff = <<>>
    /\ drawn = <<>> /\ error = "none"
    /\ NoLookup

----------------------------------------------------------------------------
(* The call chain, one action per step of the functions *)

\* laps_driver_k = session.laps.pick_drivers(driver_k), then the lap choice
PickLaps ==
    /\ pc = "called"
    /\ IF fn = "compare_race_laps" /\ lap_num >= 0 /\ lap_num <= session.total_laps
       THEN /\ fastest_lap_driver_1' = pick_laps(session.laps[1], lap_num)
            /\ fastest_lap_driver_2' = pick_laps(session.laps[2], lap_num)
       ELSE /\ fastest_lap_driver_1' = pick_fastest(session.laps[1])
            /\ fastest_lap_driver_2' = pick_fastest(session.laps[2])
    /\ pc' = "picked"
    /\ UNCHANGED <<fn, lap_num, session, telemetry_driver_1, telemetry_driver_2,
                   telemetry_driver_1_clean, telemetry_driver_2_clean,
                   common_distance, interp_driver_1, interp_driver_2, colors, lc,
                   lap_str, title_lap, corner_pos, corner_lookup_on,
                   fastest_lap_diff, drawn, error>>
    /\ UNCHANGED nnVars

\* get_telemetry().add_distance(); a selection of no lap has no driver
\* number and get_telemetry raises ValueError
GetTelemetry ==
    /\ pc = "picked"
    /\ IF Len(fastest_lap_driver_1) = 0 \/ Len(fastest_lap_driver_2) = 0
       THEN /\ error' = "ValueError"
            /\ pc' = "error"
            /\ UNCHANGED <<telemetry_driver_1, telemetry_driver_2>>
       ELSE /\ telemetry_driver_1' = fastest_lap_driver_1[1].Telemetry
            /\ telemetry_driver_2' = fastest_lap_driver_2[1].Telemetry
            /\ pc' = "telemetry"
            /\ UNCHANGED error
    /\ UNCHANGED <<fn, lap_num, session, fastest_lap_driver_1, fastest_lap_driver_2,
                   telemetry_driver_1_clean, telemetry_driver_2_clean,
                   common_distance, interp_driver_1, interp_driver_2, colors, lc,
                   lap_str, title_lap, corner_pos, corner_lookup_on,
                   fastest_lap_diff, drawn>>
    /\ UNCHANGED nnVars

DropDuplicates ==
    /\ pc = "telemetry"
    /\ fn # "old_compare_fastest_laps"
    /\ telemetry_driver_1_clean' = drop_duplicates(telemetry_driver_1)
    /\ telemetry_driver_2_clean' = drop_duplicates(telemetry_driver_2)
    /\ pc' = "clean"
    /\ UNCHANGED <<fn, lap_num, session, fastest_lap_driver_1, fastest_lap_driver_2,
                   telemetry_driver_1, telemetry_driver_2,
                   common_distance, interp_driver_1, interp_driver_2, colors, lc,
                   lap_str, title_lap, corner_pos, corner_lookup_on,
                   fastest_lap_diff, drawn, error>>
    /\ UNCHANGED nnVars

\* np.linspace(max(min1, min2), min(max1, max2), 1000) on the raw traces
CommonDistance ==
    /\ pc = "clean"
    /\ common_distance' =
          linspace(Max2(SeqMin(Distance(telemetry_driver_1)), SeqMin(Distance(telemetry_driver_2))),
                   Min2(SeqMax(Distance(telemetry_driver_1)), SeqMax(Distance(telemetry_driver_2))),
                   NumPoints)
    /\ pc' = "grid"
    /\ UNCHANGED <<fn, lap_num, session, fastest_lap_driver_1, fastest_lap_driver_2,
                   telemetry_driver_1, telemetry_driver_2,
                   telemetry_driver_1_clean, telemetry_driver_2_clean,
                   interp_driver_1, interp_driver_2, colors, lc,
                   lap_str, title_lap, corner_pos, corner_lookup_on,
                   fastest_lap_diff, drawn, error>>
    /\ UNCHANGED nnVars

Reindex ==
    /\ pc = "grid"
    /\ interp_driver_1' = reindex_nearest(telemetry_driver_1_clean, common_distance)
    /\ interp_driver_2' = reindex_nearest(telemetry_driver_2_clean, common_distance)
    /\ pc' = "interp"
    /\ UNCHANGED <<fn, lap_num, session, fastest_lap_driver_1, fastest_lap_driver_2,
                   telemetry_driver_1, telemetry_driver_2,
                   telemetry_driver_1_clean, telemetry_driver_2_clean,
                   common_distance, colors, lc,
                   lap_str, title_lap, corner_pos, corner_lookup_on,
                   fastest_lap_diff, drawn, error>>
    /\ UNCHANGED nnVars

Classify ==
    /\ pc = "interp"
    /\ colors' = np_where(driver_1_faster(interp_driver_1, interp_driver_2), "red", "blue")
    /\ pc' = "classified"
    /\ UNCHANGED <<fn, lap_num, session, fastest_lap_driver_1, fastest_lap_driver_2,
                   telemetry_driver_1, telemetry_driver_2,
                   telemetry_driver_1_clean, telemetry_driver_2_clean,
                   common_distance, interp_driver_1, interp_driver_2, lc,
                   lap_str, title_lap, corner_pos, corner_lookup_on,
                   fastest_lap_diff, drawn, error>>
    /\ UNCHANGED nnVars

Segments ==
    /\ pc = "classified"
    /\ lc' = [segments |-> make_segments(closed_points(interp_driver_1)),
              colors |-> all_but_last(colors)]
    /\ pc' = "segments"
    /\ UNCHANGED <<fn, lap_num, session, fastest_lap_driver_1, fastest_lap_driver_2,
                   telemetry_driver_1, telemetry_driver_2,
                   telemetry_driver_1_clean, telemetry_driver_2_clean,
                   common_distance, interp_driver_1, interp_driver_2, colors,
                   lap_str, title_lap, corner_pos, corner_lookup_on,
                   fastest_lap_diff, drawn, error>>
    /\ UNCHANGED nnVars

FormatLapTimes ==
    /\ pc = "segments"
    /\ lap_str' = <<lap_time_str(fastest_lap_driver_1[1].LapTime),
                    lap_time_str(fastest_lap_driver_2[1].LapTime)>>
    /\ pc' = "formatted"
    /\ UNCHANGED <<fn, lap_num, session, fastest_lap_driver_1, fastest_lap_driver_2,
                   telemetry_driver_1, telemetry_driver_2,
                   telemetry_driver_1_clean, telemetry_driver_2_clean,
                   common_distance, interp_driver_1, interp_driver_2, colors, lc,
                   title_lap, corner_pos, corner_lookup_on,
                   fastest_lap_diff, drawn, error>>
    /\ UNCHANGED nnVars

\* for num, row in corners.iterrows(): idx = (...).abs().idxmin(); pos = .loc[idx]
corner_positions(trace, corners) ==
    [c \in 1..Len(corners) |->
        LET idx == abs_idxmin(Distance(trace), 1, corners[c].Distance)
        IN  <<corners[c].Number, trace[idx].X, trace[idx].Y>>]

\* the track figure: add_collection(lc), the title, the corner markers
PlotTrack ==
    /\ pc = "formatted"
    /\ drawn' = paint(lc)
    /\ title_lap' = IF fn = "compare_race_laps" THEN "Lap " \o ToString(lap_num)
                                                ELSE "Fastest Qualifying Laps"
    /\ corner_lookup_on' = <<telemetry_driver_1>>
    /\ corner_pos' = corner_positions(telemetry_driver_1, session.corners)
    /\ pc' = "done"
    /\ UNCHANGED <<fn, lap_num, session, fastest_lap_driver_1, fastest_lap_driver_2,
                   telemetry_driver_1, telemetry_driver_2,
                   telemetry_driver_1_clean, telemetry_driver_2_clean,
                   common_distance, interp_driver_1, interp_driver_2, colors, lc,
                   lap_str, fastest_lap_diff, error>>
    /\ UNCHANGED nnVars

\* old_compare_fastest_laps: the circuit map with its corner markers
PlotCircuit ==
    /\ pc = "telemetry"
    /\ fn = "old_compare_fastest_laps"
    /\ corner_lookup_on' = <<telemetry_driver_1>>
    /\ corner_pos' = corner_positions(telemetry_driver_1, session.corners)
    /\ pc' = "circuit"
    /\ UNCHANGED <<fn, lap_num, session, fastest_lap_driver_1, fastest_lap_driver_2,
                   telemetry_driver_1, telemetry_driver_2,
                   telemetry_driver_1_clean, telemetry_driver_2_clean,
                   common_distance, interp_driver_1, interp_driver_2, colors, lc,
                   lap_str, title_lap, fastest_lap_diff, drawn, error>>
    /\ UNCHANGED nnVars

\* (d1_fastest_lap - d2_fastest_lap).total_seconds(), in ticks
lap_time_diff(lap1, lap2) == lap1.LapTime - lap2.LapTime

PrintLapDiff ==
    /\ pc = "circuit"
    /\ fastest_lap_diff' = <<lap_time_diff(fastest_lap_driver_1[1], fastest_lap_driver_2[1])>>
    /\ pc' = "done"
    /\ UNCHANGED <<fn, lap_num, session, fastest_lap_driver_1, fastest_lap_driver_2,
                   telemetry_driver_1, telemetry_driver_2,
                   telemetry_driver_1_clean, telemetry_driver_2_clean,
                   common_distance, interp_driver_1, interp_driver_2, colors, lc,
                   lap_str, title_lap, corner_pos, corner_lookup_on, drawn, error>>
    /\ UNCHANGED nnVars

Next ==
    \/ PickLaps
    \/ GetTelemetry
    \/ DropDuplicates
    \/ CommonDistance
    \/ Reindex
    \/ Classify
    \/ Segments
    \/ FormatLapTimes
    \/ PlotTrack
    \/ PlotCircuit
    \/ PrintLapDiff

Spec == Init /\ [][Next]_vars


----------------------------------------------------------------------------
(* The nearest-distance resampler on its own: one trace, one target, and   *)
(* the two lookups of the code, the corner lookup on the trace as          *)
(* retrieved and the grid lookup on the trace with duplicates dropped.     *)

InitNearest ==
    /\ NoCall
    /\ nn_trace \in NNTraces
    /\ nn_target \in 0..(NNMaxDist + 1)
    /\ nn_corner = NotLooked
    /\ nn_grid = NotLooked

corner_lookup(trace, target) ==
    LET idx == abs_idxmin(Distance(trace), 1, target)
    IN  IF idx = 0 THEN Raised("ValueError") ELSE Found(trace[idx])

grid_lookup(clean, target) ==
    LET k == nearest_indexer(Distance(clean), 1, target)
    IN  Found(clean[k])

CornerLookup ==
    /\ nn_corner = NotLooked
    /\ nn_corner' = corner_lookup(nn_trace, nn_target)
    /\ UNCHANGED <<nn_trace, nn_target, nn_grid>>
    /\ UNCHANGED pipeVars

\* the comparison functions build no grid from an empty trace
GridLookup ==
    /\ nn_grid = NotLooked
    /\ Len(nn_trace) > 0
    /\ nn_grid' = grid_lookup(drop_duplicates(nn_trace), nn_target)
    /\ UNCHANGED <<nn_trace, nn_target, nn_corner>>
    /\ UNCHANGED pipeVars

NextNearest == CornerLookup \/ GridLookup

SpecNearest == InitNearest /\ [][NextNearest]_vars


----------------------------------------------------------------------------
(* Properties *)

Old == fn = "old_compare_fastest_laps"

Classified == ~Old /\ pc \in {"classified", "segments", "formatted", "done"}

GridBuilt == pc \in {"grid", "interp"} \/ Classified

Retrieved == pc \in {"telemetry", "clean", "circuit", "done"} \/ GridBuilt

\* start and end of the overlap of the two retrieved traces
OverlapStart ==
    LET a == SeqMin(Distance(telemetry_driver_1))
        b == SeqMin(Distance(telemetry_driver_2))
    IN  IF a >= b THEN a ELSE b

OverlapEnd ==
    LET a == SeqMax(Distance(telemetry_driver_1))
        b == SeqMax(Distance(telemetry_driver_2))
    IN  IF a <= b THEN a ELSE b

\* C1: the label sequence is as long as the two resampled speed sequences,
\* and label i is red (driver 1) exactly when driver 1's resampled speed at
\* i is greater than driver 2's; otherwise, ties included, it is blue.
C1_DominanceLabels ==
    Classified =>
        /\ Len(interp_driver_1) = Len(interp_driver_2)
        /\ Len(colors) = Len(interp_driver_1)
        /\ \A i \in 1..Len(colors) :
              /\ colors[i] \in {"red", "blue"}
              /\ colors[i] = "red" <=> interp_driver_1[i].Speed > interp_driver_2[i].Speed
              /\ interp_driver_1[i].Speed = interp_driver_2[i].Speed => colors[i] = "blue"

C1_Witness ==
    /\ pc = "done"
    /\ \E i \in 1..Len(colors) : colors[i] = "red"
    /\ \E i \in 1..Len(colors) :
          colors[i] = "blue" /\ interp_driver_1[i].Speed = interp_driver_2[i].Speed
    /\ \E i \in 1..Len(colors) :
          colors[i] = "blue" /\ interp_driver_1[i].Speed < interp_driver_2[i].Speed

----------------------------------------------------------------------------
\* rows of a trace at the smallest absolute distance from the target
Closest(trace, target) ==
    {k \in 1..Len(trace) :
        \A j \in 1..Len(trace) :
            Abs(trace[k].Distance - target) <= Abs(trace[j].Distance - target)}

LowestOf(S) == CHOOSE k \in S : \A j \in S : k <= j

HighestOf(S) == CHOOSE k \in S : \A j \in S : k >= j

BothLooked == nn_corner.status = "found" /\ nn_grid.status = "found"

IsDeduplicated(trace) ==
    \A j, k \in 1..Len(trace) : j < k => trace[j].Distance < trace[k].Distance

\* C2 as stated: on a deduplicated trace both lookups return the closest
\* row, the lowest-index one when two rows are equally close, and so the
\* same row.
C2_LowestIndexInBothUses ==
    (BothLooked /\ IsDeduplicated(nn_trace)) =>
        LET first == nn_trace[LowestOf(Closest(nn_trace, nn_target))]
        IN  /\ nn_corner.row[1] = first
            /\ nn_grid.row[1] = first

\* C2 as amended: both lookups return a row at the smallest absolute
\* distance from the target; of two equally close rows the corner lookup
\* returns the lowest-index one and the grid lookup the highest-index one,
\* so the two return the same row exactly when the closest row is unique.
C2_NearestWithOwnTieBreak ==
    BothLooked =>
        LET clean == drop_duplicates(nn_trace)
            best == Closest(clean, nn_target)
        IN  /\ nn_corner.row[1] = clean[LowestOf(best)]
            /\ nn_grid.row[1] = clean[HighestOf(best)]
            /\ (nn_corner.row[1] = nn_grid.row[1]) <=> (Cardinality(best) = 1)

C2_Witness ==
    /\ BothLooked
    /\ IsDeduplicated(nn_trace)
    /\ Cardinality(Closest(nn_trace, nn_target)) = 2
    /\ nn_corner.row[1].Distance < nn_target
    /\ nn_grid.row[1].Distance > nn_target

----------------------------------------------------------------------------
\* C3: when the two distance ranges overlap (start < end) the grid has
\* exactly 1000 points, starts at start, ends at end, is increasing and
\* evenly spaced, and lies inside the distance range of both traces.
\* Grid values are in units of 1/999 metre.
C3_CommonGrid ==
    (GridBuilt /\ OverlapStart < OverlapEnd) =>
        /\ Len(common_distance) = 1000
        /\ common_distance[1] = 999 * OverlapStart
        /\ common_distance[1000] = 999 * OverlapEnd
        /\ \A i \in 1..999 :
              /\ common_distance[i] < common_distance[i + 1]
              /\ common_distance[i + 1] - common_distance[i]
                    = common_distance[2] - common_distance[1]
        /\ \A i \in 1..1000 :
              \A t \in {telemetry_driver_1, telemetry_driver_2} :
                  /\ 999 * SeqMin(Distance(t)) <= common_distance[i]
                  /\ common_distance[i] <= 999 * SeqMax(Distance(t))

C3_Witness ==
    /\ pc = "done"
    /\ Len(common_distance) = 1000
    /\ OverlapStart < OverlapEnd
    /\ SeqMin(Distance(telemetry_driver_1)) < SeqMin(Distance(telemetry_driver_2))
    /\ common_distance[1] = 999 * SeqMin(Distance(telemetry_driver_2))

----------------------------------------------------------------------------
\* C4: when start >= end the comparison stops before the grid is built; it
\* never builds the grid, resamples, classifies, builds segments or renders.
C4_DegenerateOverlapRejected ==
    (Retrieved /\ OverlapStart >= OverlapEnd) => ~GridBuilt


----------------------------------------------------------------------------
Point(i) == <<interp_driver_1[i].X, interp_driver_1[i].Y>>

\* what C5 says of the segments themselves: N segments over N+1 positions,
\* segment i from point i to point i+1, the last one back to the first
\* point, and N-1 colours handed to the collection, colour i being label i
LoopOfSegments(N) ==
    /\ Len(lc.segments) = N
    /\ \A i \in 1..(N - 1) : lc.segments[i] = <<Point(i), Point(i + 1)>>
    /\ lc.segments[N] = <<Point(N), Point(1)>>
    /\ Len(lc.colors) = N - 1
    /\ \A i \in 1..(N - 1) : lc.colors[i] = colors[i]

\* C5 as stated: only the N-1 labelled segments are drawn with a colour,
\* segment i in the colour of label i.
C5_OnlyLabelledSegmentsDrawn ==
    (~Old /\ pc = "done") =>
        LET N == Len(interp_driver_1)
        IN  /\ LoopOfSegments(N)
            /\ Len(drawn) = N - 1
            /\ \A i \in 1..(N - 1) : drawn[i] = colors[i]

\* C5 as amended: all N segments are drawn; segment i is drawn in the
\* colour of label i for the first N-1 segments, and the closing segment,
\* which has no label of its own, is drawn in the colour of the first label
\* (the N-1 colours are cycled), whatever the label of the last point is.
C5_ClosingSegmentTakesFirstColour ==
    (~Old /\ pc = "done") =>
        LET N == Len(interp_driver_1)
        IN  /\ LoopOfSegments(N)
            /\ Len(drawn) = N
            /\ \A i \in 1..(N - 1) : drawn[i] = colors[i]
            /\ drawn[N] = colors[1]

C5_Witness ==
    /\ ~Old /\ pc = "done"
    /\ Len(drawn) = 1000
    /\ colors[1] # colors[1000]
    /\ drawn[1000] = colors[1]
    /\ Point(1) # Point(1000)

----------------------------------------------------------------------------
\* C6: every distance lookup on a driver's trace is made on the trace with
\* duplicate distances dropped (first occurrence kept, order kept), never
\* on the trace as retrieved.
C6_LookupsOnDeduplicatedTrace ==
    Len(corner_lookup_on) = 1 =>
        corner_lookup_on[1] = drop_duplicates(telemetry_driver_1)

----------------------------------------------------------------------------
\* the lap time (100-microsecond ticks) as whole minutes, seconds and
\* milliseconds, truncated
WholeMinutes(t) == t \div 600000

RestSeconds(t) == (t % 600000) \div 10000

RestMillis(t) == (t % 10000) \div 10

\* C7: the legend string of a lap time is MM:SS.mmm with MM its whole
\* minutes (at least 2 digits), SS the remaining whole seconds and mmm the
\* remaining milliseconds, truncated.
C7_LapTimeString ==
    (~Old /\ pc \in {"formatted", "done"}) =>
        \A k \in 1..2 :
            LET t == (IF k = 1 THEN fastest_lap_driver_1 ELSE fastest_lap_driver_2)[1].LapTime
            IN  lap_str[k] = zero_pad(WholeMinutes(t), 2) \o ":" \o zero_pad(RestSeconds(t), 2)
                                \o "." \o zero_pad(RestMillis(t), 3)

----------------------------------------------------------------------------
OutOfRange(trace, target) ==
    \/ Len(trace) = 0
    \/ \A k \in 1..Len(trace) : target < trace[k].Distance
    \/ \A k \in 1..Len(trace) : target > trace[k].Distance

\* C8: a lookup on an empty trace, or for a target below or above every
\* sample distance, ends in an error; it never returns a sample.
C8_OutOfRangeLookupRaises ==
    OutOfRange(nn_trace, nn_target) =>
        /\ nn_corner.status # "found"
        /\ nn_grid.status # "found"

----------------------------------------------------------------------------
----------------------------------------------------------------------------
IdenticalLaps ==
    /\ telemetry_driver_1 = telemetry_driver_2
    /\ fastest_lap_driver_1[1].LapTime = fastest_lap_driver_2[1].LapTime

\* C10: with identical telemetry and identical lap times for the two
\* drivers, no grid point and no drawn segment is red (driver 1 faster) and
\* the lap-time difference is exactly 0.
C10_IdenticalDrivers ==
    (pc = "done" /\ IdenticalLaps) =>
        IF Old
        THEN fastest_lap_diff = <<0>>
        ELSE /\ \A i \in 1..Len(colors) : colors[i] = "blue"
             /\ \A i \in 1..Len(drawn) : drawn[i] = "blue"
             /\ Len(colors) = 1000 /\ Len(drawn) = 1000

C10_Witness ==
    /\ pc = "done" /\ ~Old
    /\ IdenticalLaps
    /\ OverlapStart < OverlapEnd
    /\ Len(drawn) = 1000
    /\ \E i, j \in 1..Len(interp_driver_1) :
          interp_driver_1[i].Speed # interp_driver_1[j].Speed

----------------------------------------------------------------------------
Numbered == lap_num >= 0 /\ lap_num <= session.total_laps

\* both drivers' laps were chosen the same way, the way lap_num decides
SameStrategy ==
    IF Numbered
    THEN /\ fastest_lap_driver_1[1].LapNumber = lap_num
         /\ fastest_lap_driver_2[1].LapNumber = lap_num
    ELSE /\ fastest_lap_driver_1 = pick_fastest(session.laps[1])
         /\ fastest_lap_driver_2 = pick_fastest(session.laps[2])

====
